---- MODULE Spec2Model ----
(***************************************************************************)
(* A model of the kitkat repository: the MCP tool server                   *)
(* (src/mcp-server.cts: getOffers, createPurchaseLink,                     *)
(* generateOfferWidget) and the chat client's turn orchestrator            *)
(* (src/unnamed/part_000: parseAgentResponse, callAgent, App).             *)
(*                                                                         *)
(* JavaScript strings are sequences whose elements are characters; a       *)
(* literal of the source that no code inspects character by character may  *)
(* be written as one element.  Strings that go through toLowerCase (the    *)
(* category, the offer ids, the catalog keys) are written character by     *)
(* character.  JavaScript values are tagged records [t, v].                *)
(***************************************************************************)
EXTENDS Integers, Sequences, FiniteSets, TLC

(***************************************************************************)
(* JavaScript values                                                       *)
(***************************************************************************)
Undefined == [t |-> "undefined"]
Null      == [t |-> "null"]
Fn        == [t |-> "fn"]
Bool(b)   == [t |-> "bool", v |-> b]
Num(d)    == [t |-> "num", v |-> d]
StrV(s)   == [t |-> "str", v |-> s]
Arr(a)    == [t |-> "arr", v |-> a]
Obj(p)    == [t |-> "obj", v |-> p]
Prop(k, x) == [k |-> k, v |-> x]

\* JavaScript truthiness (ToBoolean)
Truthy(x) ==
    CASE x.t = "undefined" -> FALSE
      [] x.t = "null"      -> FALSE
      [] x.t = "bool"      -> x.v
      [] x.t = "num"       -> x.v \notin {<<"0">>, <<"-", "0">>}
      [] x.t = "str"       -> x.v # <<>>
      [] OTHER             -> TRUE

\* x.key / x[key] throws a TypeError when x is undefined or null
Nullish(x) == x.t \in {"undefined", "null"}

\* the properties every plain object inherits from Object.prototype
ObjectPrototype ==
    << Prop(<<"c","o","n","s","t","r","u","c","t","o","r">>, Fn),
       Prop(<<"_","_","p","r","o","t","o","_","_">>, Obj(<<>>)),
       Prop(<<"t","o","S","t","r","i","n","g">>, Fn),
       Prop(<<"v","a","l","u","e","O","f">>, Fn) >>

Lookup(props, key) ==
    IF \E i \in 1..Len(props) : props[i].k = key
    THEN props[CHOOSE i \in 1..Len(props) : props[i].k = key].v
    ELSE Undefined

\* property read x[key] of a non-nullish value: own properties, then the
\* prototype chain
Get(x, key) ==
    IF x.t = "obj"
    THEN IF \E i \in 1..Len(x.v) : x.v[i].k = key
         THEN Lookup(x.v, key)
         ELSE Lookup(ObjectPrototype, key)
    ELSE Undefined

\* array index a[i], zero based
Index(a, i) ==
    IF a.t = "arr" /\ i + 1 \in 1..Len(a.v) THEN a.v[i + 1] ELSE Undefined

(***************************************************************************)
(* String.prototype.toLowerCase                                            *)
(***************************************************************************)
UpperCase == <<"A","B","C","D","E","F","G","H","I","J","K","L","M",
               "N","O","P","Q","R","S","T","U","V","W","X","Y","Z">>
LowerCase == <<"a","b","c","d","e","f","g","h","i","j","k","l","m",
               "n","o","p","q","r","s","t","u","v","w","x","y","z">>

LowerChar(c) ==
    IF \E i \in 1..Len(UpperCase) : UpperCase[i] = c
    THEN LowerCase[CHOOSE i \in 1..Len(UpperCase) : UpperCase[i] = c]
    ELSE c

ToLowerCase(s) == [i \in 1..Len(s) |-> LowerChar(s[i])]

(***************************************************************************)
(* JSON.stringify and JSON.parse                                           *)
(***************************************************************************)
EscapeChar(c) ==
    IF c = "\"" THEN "\\\"" ELSE IF c = "\\" THEN "\\\\" ELSE c

UnescapeChar(c) ==
    IF c = "\\\"" THEN "\"" ELSE IF c = "\\\\" THEN "\\" ELSE c

Quote(s) == <<"\"">> \o [i \in 1..Len(s) |-> EscapeChar(s[i])] \o <<"\"">>

\* JSON.stringify leaves out the properties whose value is undefined or a
\* function
Serializable(props) == SelectSeq(props, LAMBDA p : p.v.t \notin {"undefined", "fn"})

RECURSIVE JSONStringify(_), StringifyElements(_, _), StringifyMembers(_, _)

JSONStringify(x) ==
    CASE x.t = "null" -> <<"null">>
      [] x.t = "bool" -> IF x.v THEN <<"true">> ELSE <<"false">>
      [] x.t = "num"  -> x.v
      [] x.t = "str"  -> Quote(x.v)
      [] x.t = "arr"  -> <<"[">> \o StringifyElements(x.v, 1) \o <<"]">>
      [] x.t = "obj"  -> <<"{">> \o StringifyMembers(Serializable(x.v), 1) \o <<"}">>
      [] OTHER        -> <<"null">>

StringifyElements(a, i) ==
    IF i > Len(a) THEN <<>>
    ELSE JSONStringify(a[i])
         \o (IF i < Len(a) THEN <<",">> ELSE <<>>)
         \o StringifyElements(a, i + 1)

StringifyMembers(p, i) ==
    IF i > Len(p) THEN <<>>
    ELSE Quote(p[i].k) \o <<":">> \o JSONStringify(p[i].v)
         \o (IF i < Len(p) THEN <<",">> ELSE <<>>)
         \o StringifyMembers(p, i + 1)

ParseFail == [ok |-> FALSE, val |-> Undefined, next |-> 0]
ParseOk(x, n) == [ok |-> TRUE, val |-> x, next |-> n]

NumberChars == {"0","1","2","3","4","5","6","7","8","9",".","-"}

Min(S) == CHOOSE m \in S : \A n \in S : m <= n

ParseString(s, i) ==
    LET ends == {j \in (i + 1)..Len(s) : s[j] = "\""}
    IN  IF ends = {} THEN ParseFail
        ELSE LET j == Min(ends)
             IN  ParseOk(StrV([n \in 1..(j - i - 1) |-> UnescapeChar(s[i + n])]), j + 1)

ParseNumber(s, i) ==
    LET stop == Min({j \in i..(Len(s) + 1) : j = Len(s) + 1 \/ s[j] \notin NumberChars})
        d    == SubSeq(s, i, stop - 1)
        dots == {n \in 1..Len(d) : d[n] = "."}
    IN  IF /\ d[Len(d)] \notin {".", "-"}
           /\ Cardinality(dots) <= 1
           /\ \A n \in 2..Len(d) : d[n] # "-"
           /\ d[1] # "."
        THEN ParseOk(Num(d), stop)
        ELSE ParseFail

\* an object literal keeps one value per key: a repeated key overwrites
SetProp(props, k, x) ==
    IF \E i \in 1..Len(props) : props[i].k = k
    THEN [i \in 1..Len(props) |-> IF props[i].k = k THEN Prop(k, x) ELSE props[i]]
    ELSE Append(props, Prop(k, x))

RECURSIVE ParseValue(_, _), ParseElements(_, _, _), ParseMembers(_, _, _)

ParseValue(s, i) ==
    IF i > Len(s) THEN ParseFail
    ELSE CASE s[i] = "{" ->
                IF i + 1 <= Len(s) /\ s[i + 1] = "}"
                THEN ParseOk(Obj(<<>>), i + 2)
                ELSE ParseMembers(s, i + 1, <<>>)
           [] s[i] = "[" ->
                IF i + 1 <= Len(s) /\ s[i + 1] = "]"
                THEN ParseOk(Arr(<<>>), i + 2)
                ELSE ParseElements(s, i + 1, <<>>)
           [] s[i] = "\""    -> ParseString(s, i)
           [] s[i] = "null"  -> ParseOk(Null, i + 1)
           [] s[i] = "true"  -> ParseOk(Bool(TRUE), i + 1)
           [] s[i] = "false" -> ParseOk(Bool(FALSE), i + 1)
           [] s[i] \in NumberChars -> ParseNumber(s, i)
           [] OTHER -> ParseFail

ParseElements(s, i, acc) ==
    LET x == ParseValue(s, i)
    IN  IF ~x.ok \/ x.next > Len(s) THEN ParseFail
        ELSE IF s[x.next] = "," THEN ParseElements(s, x.next + 1, Append(acc, x.val))
        ELSE IF s[x.next] = "]" THEN ParseOk(Arr(Append(acc, x.val)), x.next + 1)
        ELSE ParseFail

ParseMembers(s, i, acc) ==
    LET k == IF i <= Len(s) /\ s[i] = "\"" THEN ParseString(s, i) ELSE ParseFail
    IN  IF ~k.ok \/ k.next > Len(s) THEN ParseFail
        ELSE IF s[k.next] # ":" THEN ParseFail
        ELSE LET x == ParseValue(s, k.next + 1)
             IN  IF ~x.ok \/ x.next > Len(s) THEN ParseFail
                 ELSE IF s[x.next] = ","
                      THEN ParseMembers(s, x.next + 1, SetProp(acc, k.val.v, x.val))
                 ELSE IF s[x.next] = "}"
                      THEN ParseOk(Obj(SetProp(acc, k.val.v, x.val)), x.next + 1)
                 ELSE ParseFail

\* JSON.parse(s): ok = FALSE stands for the SyntaxError it throws
JSONParse(s) ==
    LET r == ParseValue(s, 1)
    IN  IF r.ok /\ r.next = Len(s) + 1 THEN [ok |-> TRUE, val |-> r.val]
        ELSE [ok |-> FALSE, val |-> Undefined]

(***************************************************************************)
(* The tool server: src/mcp-server.cts                                     *)
(***************************************************************************)
K(name) == <<name>>

S_home       == <<"h","o","m","e">>
S_business   == <<"b","u","s","i","n","e","s","s">>
home_basic   == <<"h","o","m","e","_","b","a","s","i","c">>
home_pro     == <<"h","o","m","e","_","p","r","o">>
biz_starter  == <<"b","i","z","_","s","t","a","r","t","e","r">>
biz_fortress == <<"b","i","z","_","f","o","r","t","r","e","s","s">>

Offer(id, name, price, description) ==
    Obj(<< Prop(K("id"), StrV(id)),
           Prop(K("name"), StrV(<<name>>)),
           Prop(K("price"), Num(price)),
           Prop(K("description"), StrV(<<description>>)) >>)

OFFERS ==
    Obj(<< Prop(S_home, Arr(<<
               Offer(home_basic, "Home Basic Shield", <<"4","9",".","9","9">>,
                     "Door/Window sensors, 24/7 monitoring."),
               Offer(home_pro, "Home Pro+", <<"9","9",".","9","9">>,
                     "Includes cameras, smart alerts, and fire monitoring.") >>)),
           Prop(S_business, Arr(<<
               Offer(biz_starter, "Business Starter", <<"7","9",".","9","9">>,
                     "Basic access control and alarm monitoring."),
               Offer(biz_fortress, "Business Fortress", <<"1","9","9",".","9","9">>,
                     "Full video surveillance, remote access, advanced analytics.") >>)) >>)

RegisteredTools == {"getOffers", "createPurchaseLink", "generateOfferWidget"}

\* what a handler that throws leaves its caller with
Thrown == [t |-> "throw"]

\* { content: [{ type: 'text', text }] }
TextEnvelope(text) ==
    Obj(<< Prop(K("content"),
                Arr(<< Obj(<< Prop(K("type"), StrV(K("text"))),
                              Prop(K("text"), StrV(text)) >>) >>)) >>)

\* a getOffers that uses the category as given
SelectedCategoryAsGiven(category) ==
    IF Truthy(category) THEN category.v ELSE S_home

\* input.category ? input.category.toLowerCase() : 'home'
SelectedCategory(category) ==
    IF Truthy(category) THEN ToLowerCase(category.v) ELSE S_home

\* getOffers handler, reading the catalog object cat
GetOffersOn(cat, input) ==
    LET category == Get(input, K("category"))
    IN  IF Truthy(category) /\ category.t # "str" THEN Thrown
        ELSE LET selectedCategory == SelectedCategory(category)
                 found  == Get(cat, selectedCategory)
                 offers == IF Truthy(found) THEN found ELSE Get(cat, S_home)
             IN  TextEnvelope(JSONStringify(Obj(<< Prop(K("offers"), offers) >>)))

\* String.prototype.substring(from, to) with 0 <= from <= to
Substring(s, from, to) ==
    SubSeq(s, from + 1, IF to < Len(s) THEN to ELSE Len(s))

SuffixLen == 8

MissingOfferIdText ==
    K("Error: Missing offer ID. Please ask the user to specify an ID from the available offers.")

\* a createPurchaseLink without the test of offer_id
CreatePurchaseLinkUnchecked(input, uuid) ==
    LET offer_id == Get(input, K("offer_id"))
    IN  IF offer_id.t # "str" THEN Thrown
        ELSE LET checkoutUrl ==
                     K("https://your-company.com/checkout/")
                     \o ToLowerCase(offer_id.v)
                     \o K("?source=agent-")
                     \o Substring(uuid, 0, SuffixLen)
             IN  TextEnvelope(JSONStringify(Obj(<< Prop(K("purchase_url"), StrV(checkoutUrl)) >>)))

\* createPurchaseLink handler; uuid is what randomUUID() returns
CreatePurchaseLink(input, uuid) ==
    LET offer_id == Get(input, K("offer_id"))
    IN  IF ~Truthy(offer_id) THEN TextEnvelope(MissingOfferIdText)
        ELSE IF offer_id.t # "str" THEN Thrown
        ELSE LET checkoutUrl ==
                     K("https://your-company.com/checkout/")
                     \o ToLowerCase(offer_id.v)
                     \o K("?source=agent-")
                     \o Substring(uuid, 0, SuffixLen)
             IN  TextEnvelope(JSONStringify(Obj(<< Prop(K("purchase_url"), StrV(checkoutUrl)) >>)))

\* template interpolation ${x}
ToText(x) ==
    CASE x.t = "str"       -> x.v
      [] x.t = "num"       -> x.v
      [] x.t = "undefined" -> K("undefined")
      [] x.t = "null"      -> K("null")
      [] x.t = "bool"      -> IF x.v THEN K("true") ELSE K("false")
      [] x.t = "arr"       -> IF x.v = <<>> THEN <<>> ELSE K("[array]")
      [] OTHER             -> K("[object Object]")

\* Number.prototype.toFixed(2) of a decimal with at most two fraction digits
ToFixed2(d) ==
    LET dots == {n \in 1..Len(d) : d[n] = "."}
    IN  CASE dots = {} -> d \o <<".", "0", "0">>
          [] dots # {} /\ Len(d) - Min(dots) = 1 -> d \o <<"0">>
          [] dots # {} /\ Len(d) - Min(dots) = 2 -> d

\* rendering an offer throws when the offer is nullish or its price is not
\* a number
CardThrows(offer) ==
    \/ Nullish(offer)
    \/ Get(offer, K("price")).t # "num"

\* one card of the widget
OfferCard(offer) ==
    <<"<div class=", "\"", "p-4 bg-white rounded-xl", "\"", " data-offer-id=", "\"">>
    \o ToText(Get(offer, K("id")))
    \o <<"\"", "><h3>">>
    \o ToText(Get(offer, K("name")))
    \o <<"</h3><p>$">>
    \o ToFixed2(Get(offer, K("price")).v)
    \o <<"</p><p>">>
    \o ToText(Get(offer, K("description")))
    \o <<"</p><button onclick=", "\"", "agentCall('createPurchaseLink', {offer_id: '">>
    \o ToText(Get(offer, K("id")))
    \o <<"'})", "\"", ">Select Plan</button></div>">>

RECURSIVE JoinCardsReversed(_, _)
\* a rendering that emits the cards last to first
JoinCardsReversed(offers, i) ==
    IF i > Len(offers) THEN <<>>
    ELSE JoinCardsReversed(offers, i + 1) \o OfferCard(offers[i])

RECURSIVE JoinCards(_, _)
\* offers.map(card).join('')
JoinCards(offers, i) ==
    IF i > Len(offers) THEN <<>>
    ELSE OfferCard(offers[i]) \o JoinCards(offers, i + 1)

FinalWidget(widgetHtml) ==
    <<"<div><h2>Recommended Security Packages</h2>">>
    \o widgetHtml
    \o <<"<p>Click 'Select Plan' to generate a unique purchase link.</p></div>">>

NoOffersPayload ==
    Obj(<< Prop(K("status"), StrV(K("error"))),
           Prop(K("message"), StrV(K("No offers available to generate widget."))) >>)

\* a generateOfferWidget that only tests !offers
NoOffersIgnoringLength(offers) == ~Truthy(offers)

\* !offers || offers.length === 0
NoOffers(offers) == ~Truthy(offers) \/ (offers.t = "arr" /\ Len(offers.v) = 0)

\* generateOfferWidget handler
GenerateOfferWidget(input) ==
    LET offers == Get(input, K("offers"))
    IN  IF NoOffers(offers)
        THEN TextEnvelope(JSONStringify(NoOffersPayload))
        ELSE IF offers.t # "arr" THEN Thrown
        ELSE IF \E i \in 1..Len(offers.v) : CardThrows(offers.v[i]) THEN Thrown
        ELSE TextEnvelope(JSONStringify(Obj(<<
                 Prop(K("status"), StrV(K("success"))),
                 Prop(K("widget_data"), Obj(<<
                     Prop(K("html"), StrV(FinalWidget(JoinCards(offers.v, 1)))),
                     Prop(K("metadata"), Obj(<<
                         Prop(K("offers"),
                              Arr([i \in 1..Len(offers.v) |-> Get(offers.v[i], K("id"))]))
                     >>)) >>)) >>)))

\* the text of the single content item of an envelope
EnvelopeText(envelope) == Get(Index(Get(envelope, K("content")), 0), K("text")).v

(***************************************************************************)
(* The chat client: src/unnamed/part_000                                   *)
(***************************************************************************)
\* a transcript entry { role, content?, widget?, error? }; an absent field
\* is Undefined
Turn(role, content, widget, error) ==
    [role |-> role, content |-> content, widget |-> widget, error |-> error]

\* { parts: [{ text }] }
TextContent(text) ==
    Obj(<< Prop(K("parts"), Arr(<< Obj(<< Prop(K("text"), StrV(text)) >>) >>)) >>)

UserTurn(text) == Turn("user", TextContent(text), Undefined, Undefined)

ErrorTurn(error) == Turn("error", Undefined, Undefined, error)

\* { role: 'agent', content: agentMessage, ...(widget && { widget }) }
AgentTurn(agentMessage, widget) ==
    Turn("agent", agentMessage, IF Truthy(widget) THEN widget ELSE Undefined, Undefined)

Greeting ==
    Turn("agent",
         TextContent(K("Hello! How can I assist you today? Try asking about 'home' or 'business' security packages.")),
         Undefined, Undefined)

\* String.prototype.trim() on the blank characters of the model
Blank(s) == \A i \in 1..Len(s) : s[i] = " "

\* message?.content?.parts || []
PartsOf(message) ==
    LET content == IF Nullish(message) THEN Undefined ELSE Get(message, K("content"))
        parts   == IF Nullish(content) THEN Undefined ELSE Get(content, K("parts"))
    IN  IF Truthy(parts) THEN parts ELSE Arr(<<>>)

RECURSIVE ConcatText(_, _)
\* the loop's  if (part.text) text += part.text
ConcatText(parts, i) ==
    IF i > Len(parts) THEN <<>>
    ELSE (IF Truthy(Get(parts[i], K("text")))
          THEN ToText(Get(parts[i], K("text"))) ELSE <<>>)
         \o ConcatText(parts, i + 1)

\* the loop's  if (part.functionCall) toolCalls.push(part.functionCall)
ToolCallsOf(parts) ==
    LET withCall == SelectSeq(parts, LAMBDA part : Truthy(Get(part, K("functionCall"))))
    IN  [i \in 1..Len(withCall) |-> Get(withCall[i], K("functionCall"))]

\* part.groundingMetadata?.groundingAttributions, when truthy, is mapped with
\* Array.prototype.map and every attribution is read with attr.web?.uri
GroundingThrows(part) ==
    LET meta == Get(part, K("groundingMetadata"))
        attributions == IF Nullish(meta) THEN Undefined
                        ELSE Get(meta, K("groundingAttributions"))
    IN  /\ Truthy(attributions)
        /\ \/ attributions.t # "arr"
           \/ \E i \in 1..Len(attributions.v) : Nullish(attributions.v[i])

\* parseAgentResponse(message); threw stands for the TypeError of iterating
\* something that is not iterable or of reading a property of a nullish part
ParseAgentResponse(message) ==
    LET parts == PartsOf(message)
    IN  IF parts.t \notin {"arr", "str"} THEN [threw |-> TRUE, text |-> <<>>, toolCalls |-> <<>>]
        ELSE IF parts.t = "str" THEN [threw |-> FALSE, text |-> <<>>, toolCalls |-> <<>>]
        ELSE IF \E i \in 1..Len(parts.v) : Nullish(parts.v[i]) \/ GroundingThrows(parts.v[i])
             THEN [threw |-> TRUE, text |-> <<>>, toolCalls |-> <<>>]
        ELSE [threw |-> FALSE,
              text |-> ConcatText(parts.v, 1),
              toolCalls |-> ToolCallsOf(parts.v)]

ConnectFailedText == K("Failed to connect to the agent service.")
UnexpectedErrorText == K("An unexpected error occurred during communication.")
WidgetConfirmationText == K("Here are the recommended packages:")

\* a callAgent whose catch block logs and returns nothing
CallAgentWithoutFallback(transport) ==
    IF transport.ok THEN transport.data ELSE Undefined

\* callAgent: the transport either answers with response.data or fails
CallAgent(transport) ==
    IF transport.ok THEN transport.data
    ELSE Obj(<< Prop(K("error"), StrV(ConnectFailedText)) >>)

\* the inner try of handleSendMessage: JSON.parse(parsedOutput.text) and
\* data.widget_data; any exception leaves widget null
WidgetOf(text) ==
    LET data == JSONParse(text)
    IN  IF ~data.ok \/ Nullish(data.val) THEN Null
        ELSE IF Truthy(Get(data.val, K("widget_data")))
             THEN Get(data.val, K("widget_data"))
             ELSE Null

\* agentMessage.text = 'Here are the recommended packages:'
WithDisplayText(agentMessage) ==
    IF agentMessage.t = "obj"
    THEN Obj(SetProp(agentMessage.v, K("text"), StrV(WidgetConfirmationText)))
    ELSE agentMessage

\* what handleSendMessage does with the result of callAgent: the one turn
\* it hands to setHistory
TurnFor(result) ==
    IF Nullish(result) THEN ErrorTurn(StrV(UnexpectedErrorText))
    ELSE IF Truthy(Get(result, K("error"))) THEN ErrorTurn(Get(result, K("error")))
    ELSE LET candidates == Get(result, K("candidates"))
             first      == IF candidates.t = "arr" THEN Index(candidates, 0) ELSE Undefined
         IN  IF Nullish(candidates) \/ Nullish(first)
             THEN ErrorTurn(StrV(UnexpectedErrorText))
             ELSE LET agentMessage == Get(first, K("content"))
                      parsedOutput == ParseAgentResponse(agentMessage)
                      widget       == WidgetOf(parsedOutput.text)
                  IN  IF parsedOutput.threw THEN ErrorTurn(StrV(UnexpectedErrorText))
                      ELSE IF Truthy(widget)
                           THEN AgentTurn(WithDisplayText(agentMessage), widget)
                           ELSE AgentTurn(agentMessage, widget)

\* `User clicked widget button: ${toolName}(${JSON.stringify(toolArgs)})`
ClickText(toolName, toolArgs) ==
    K("User clicked widget button: ") \o toolName \o K("(")
    \o JSONStringify(toolArgs) \o K(")")

\* newHistory of handleSendMessage(userText, toolName, toolArgs), built
\* from the history its closure captured; userText and toolName are JS
\* values (null when absent)
NewHistory(captured, userText, toolName, toolArgs) ==
    LET withUser == IF Truthy(userText) /\ ~Blank(userText.v)
                    THEN Append(captured, UserTurn(userText.v))
                    ELSE captured
    IN  IF Truthy(toolName)
        THEN Append(withUser, UserTurn(ClickText(toolName.v, toolArgs)))
        ELSE withUser

\* a setHistory that overwrites the latest turn
ReplaceLastTurn(h, turn) == [h EXCEPT ![Len(h)] = turn]

\* a setHistory that puts the new turn first
PrependTurn(h, turn) == <<turn>> \o h

\* setHistory(h => [...h, turn])
AppendTurn(h, turn) == Append(h, turn)

(***************************************************************************)
(* Inputs                                                                  *)
(***************************************************************************)
MaxInvocations == 2
MaxSubmissions == 2

CategoryInput(c) == Obj(<< Prop(K("category"), StrV(c)) >>)

Categories ==
    { S_home, <<"H","O","M","E">>, <<"H","o","m","E">>,
      S_business, <<"B","U","S","I","N","E","S","S">>, <<"B","u","s","i","n","e","s","S">>,
      <<>>, <<"g","a","r","a","g","e">>, <<"h","o","m","e","s">>, <<" ","h","o","m","e">>,
      <<"c","o","n","s","t","r","u","c","t","o","r">>,
      <<"t","o","S","t","r","i","n","g">> }

GetOffersInputs == {Obj(<<>>)} \cup {CategoryInput(c) : c \in Categories}

OfferIdInput(id) == Obj(<< Prop(K("offer_id"), StrV(id)) >>)

OfferIds == { <<>>, home_pro, <<"H","O","M","E","_","P","R","O">>,
              <<"H","o","m","e","_","P","r","o">>, biz_starter }

CreatePurchaseLinkInputs == {Obj(<<>>)} \cup {OfferIdInput(id) : id \in OfferIds}

OffersInput(offers) == Obj(<< Prop(K("offers"), Arr(offers)) >>)

HomeOffers == Get(OFFERS, S_home).v
BusinessOffers == Get(OFFERS, S_business).v

GenerateOfferWidgetInputs ==
    { Obj(<<>>), OffersInput(<<>>), OffersInput(HomeOffers), OffersInput(BusinessOffers),
      OffersInput(<<HomeOffers[2], HomeOffers[1]>>),
      OffersInput(<<HomeOffers[2], HomeOffers[2]>>),
      OffersInput(<<BusinessOffers[1]>>),
      OffersInput(<<Null>>),
      OffersInput(<<HomeOffers[1], Obj(<< Prop(K("id"), StrV(home_pro)) >>)>>) }

\* what randomUUID() can return: version 4 UUIDs, two of which agree on
\* their first eight characters
Uuids ==
    { <<"3","f","a","8","5","f","6","4">> \o K("-5717-4562-b3fc-2c963f66afa6"),
      <<"3","f","a","8","5","f","6","4">> \o K("-1c9e-4d1b-8a37-9f0e6b2d4c11"),
      <<"9","b","1","d","e","b","4","d">> \o K("-3b7d-4bad-9bdd-2b0d7b3dcb6d") }

\* what the user types and sends
UserTexts == { S_home }

\* what a rendered widget's button passes to window.agentCall
WidgetActions ==
    { [toolName |-> K("createPurchaseLink"), args |-> OfferIdInput(home_pro)] }

TextPart(text) == Obj(<< Prop(K("text"), StrV(text)) >>)

\* { candidates: [{ content: { parts } }] }
Response(parts) ==
    Obj(<< Prop(K("candidates"),
                Arr(<< Obj(<< Prop(K("content"),
                                   Obj(<< Prop(K("parts"), Arr(parts)) >>)) >>) >>)) >>)

\* the text the agent relays after calling getOffers({category}) and then
\* generateOfferWidget with the offers it got
WidgetTextFor(category) ==
    LET offers == Get(JSONParse(EnvelopeText(GetOffersOn(OFFERS, CategoryInput(category)))).val,
                      K("offers"))
    IN  EnvelopeText(GenerateOfferWidget(Obj(<< Prop(K("offers"), offers) >>)))

HomeWidgetText == WidgetTextFor(S_home)

MockedHomeAnswer == Response(<< TextPart(HomeWidgetText) >>)

\* the bodies the agent service can answer with (response.data)
AgentData ==
    { Response(<< TextPart(K("Our home packages start at $49.99.")) >>),
      MockedHomeAnswer,
      Response(<< TextPart(EnvelopeText(GenerateOfferWidget(OffersInput(<<>>)))) >>),
      Response(<<>>),
      Obj(<< Prop(K("candidates"),
                  Arr(<< Obj(<< Prop(K("content"),
                                     Obj(<< Prop(K("content"),
                                                 Obj(<< Prop(K("parts"),
                                                             Arr(<< TextPart(SubSeq(HomeWidgetText, 1, 5)),
                                                                    TextPart(SubSeq(HomeWidgetText, 6, Len(HomeWidgetText))) >>)) >>)) >>)) >>) >>)) >>),
      Obj(<<>>),
      Obj(<< Prop(K("candidates"), Arr(<<>>)) >>),
      Obj(<< Prop(K("candidates"), Arr(<< Obj(<<>>) >>)) >>),
      Obj(<< Prop(K("candidates"), Arr(<< Obj(<< Prop(K("content"), Obj(<<>>)) >>) >>)) >>),
      Obj(<< Prop(K("error"), StrV(K("The agent is unavailable."))) >>) }

\* what axios.post can end with
TransportFailure == [ok |-> FALSE, data |-> Undefined]
TransportAnswer(data) == [ok |-> TRUE, data |-> data]
Transports == {TransportFailure} \cup {TransportAnswer(d) : d \in AgentData}

(***************************************************************************)
(* State                                                                   *)
(***************************************************************************)
VARIABLES
    catalog,      \* the OFFERS object of the server process
    registry,     \* the names registered with server.registerTool
    invocations,  \* the tool invocations handled so far, with their results
    usedUuids,    \* the values randomUUID() has returned
    history,      \* App state: the transcript
    isThinking,   \* App state: the busy flag
    agentCall,    \* window.agentCall: the closure the effect last bound
    mounted,      \* the App component is mounted
    calls,        \* the accepted handleSendMessage invocations
    turnedAway    \* a submission has been turned away

vars == << catalog, registry, invocations, usedUuids,
           history, isThinking, agentCall, mounted, calls, turnedAway >>

serverVars == << catalog, registry, invocations, usedUuids >>
clientVars == << history, isThinking, agentCall, mounted, calls, turnedAway >>

\* window.agentCall is absent
Unbound == [bound |-> FALSE, history |-> <<>>, isThinking |-> FALSE]

\* window.agentCall = (toolName, args) => handleSendMessage(null, toolName, args)
\* where handleSendMessage closes over the history and isThinking of its render
Bound(h, thinking) == [bound |-> TRUE, history |-> h, isThinking |-> thinking]

ServerStart ==
    /\ catalog = OFFERS
    /\ registry = RegisteredTools
    /\ invocations = <<>>
    /\ usedUuids = {}

ClientStart ==
    /\ history = <<Greeting>>
    /\ isThinking = FALSE
    /\ agentCall = Unbound
    /\ mounted = TRUE
    /\ calls = <<>>
    /\ turnedAway = FALSE

Init == ServerStart /\ ClientStart

(***************************************************************************)
(* The tool server's steps: one per tool invocation.  No handler awaits,   *)
(* so each invocation runs to completion in one step.                      *)
(***************************************************************************)
GetOffers(input) == GetOffersOn(catalog, input)

Invocation(tool, input, uuid, result) ==
    [tool |-> tool, input |-> input, uuid |-> uuid, result |-> result]

\* a getOffers that keeps the offers it returned as the new default:
\* OFFERS.home = OFFERS[selectedCategory] || OFFERS.home
InvokeGetOffersKeepingDefault ==
    \E input \in GetOffersInputs :
        /\ Len(invocations) < MaxInvocations
        /\ "getOffers" \in registry
        /\ invocations' = Append(invocations,
                                 Invocation("getOffers", input, <<>>, GetOffers(input)))
        /\ catalog' = LET found == Get(catalog, SelectedCategory(Get(input, K("category"))))
                      IN  IF Truthy(found) THEN Obj(SetProp(catalog.v, S_home, found))
                          ELSE catalog
        /\ UNCHANGED << registry, usedUuids >>

InvokeGetOffers ==
    \E input \in GetOffersInputs :
        /\ Len(invocations) < MaxInvocations
        /\ "getOffers" \in registry
        /\ invocations' = Append(invocations,
                                 Invocation("getOffers", input, <<>>, GetOffers(input)))
        /\ UNCHANGED << catalog, registry, usedUuids >>

\* randomUUID() is called only on the path that builds a link
InvokeCreatePurchaseLink ==
    \E input \in CreatePurchaseLinkInputs :
        /\ Len(invocations) < MaxInvocations
        /\ "createPurchaseLink" \in registry
        /\ IF Truthy(Get(input, K("offer_id")))
           THEN \E uuid \in Uuids \ usedUuids :
                    /\ invocations' = Append(invocations,
                           Invocation("createPurchaseLink", input, uuid,
                                      CreatePurchaseLink(input, uuid)))
                    /\ usedUuids' = usedUuids \cup {uuid}
           ELSE /\ invocations' = Append(invocations,
                       Invocation("createPurchaseLink", input, <<>>,
                                  CreatePurchaseLink(input, <<>>)))
                /\ usedUuids' = usedUuids
        /\ UNCHANGED << catalog, registry >>

InvokeGenerateOfferWidget ==
    \E input \in GenerateOfferWidgetInputs :
        /\ Len(invocations) < MaxInvocations
        /\ "generateOfferWidget" \in registry
        /\ invocations' = Append(invocations,
               Invocation("generateOfferWidget", input, <<>>, GenerateOfferWidget(input)))
        /\ UNCHANGED << catalog, registry, usedUuids >>

ToolNext ==
    \/ InvokeGetOffers /\ UNCHANGED clientVars
    \/ InvokeCreatePurchaseLink /\ UNCHANGED clientVars
    \/ InvokeGenerateOfferWidget /\ UNCHANGED clientVars

ToolSpec == Init /\ [][ToolNext]_vars

(***************************************************************************)
(* Properties of the tool server                                           *)
(***************************************************************************)
HasOwn(x, key) == x.t = "obj" /\ \E i \in 1..Len(x.v) : x.v[i].k = key

\* the two strings are equal up to the case of their letters
SameIgnoringCase(a, b) ==
    /\ Len(a) = Len(b)
    /\ \A i \in 1..Len(a) :
           \/ a[i] = b[i]
           \/ \E n \in 1..Len(UpperCase) : {a[i], b[i]} = {UpperCase[n], LowerCase[n]}

KnownCategories == {S_home, S_business}

\* the category of a getOffers input names the known category known
Names(input, known) ==
    /\ Get(input, K("category")).t = "str"
    /\ SameIgnoringCase(Get(input, K("category")).v, known)

\* the envelope is { content: [one text item] } and the text is the JSON
\* of { offers: <exactly these offers, in this order> }
ReturnsOffers(result, offers) ==
    /\ result.t = "obj"
    /\ Get(result, K("content")).t = "arr"
    /\ Len(Get(result, K("content")).v) = 1
    /\ JSONParse(EnvelopeText(result)) =
           [ok |-> TRUE, val |-> Obj(<< Prop(K("offers"), offers) >>)]

GetOffersInvocations ==
    {i \in 1..Len(invocations) : invocations[i].tool = "getOffers"}

\* C7: for every category that equals "home" or "business" up to case,
\* getOffers returns exactly that category's offers, in catalog order.
C7_KnownCategoryReturnsItsOffers ==
    \A i \in GetOffersInvocations : \A known \in KnownCategories :
        Names(invocations[i].input, known)
            => ReturnsOffers(invocations[i].result, Get(OFFERS, known))

\* C7 witness: getOffers has answered a category written in another case
\* than the catalog's key
C7_Witness ==
    \E i \in GetOffersInvocations :
        /\ Names(invocations[i].input, S_business)
        /\ Get(invocations[i].input, K("category")).v # S_business
        /\ ReturnsOffers(invocations[i].result, Get(OFFERS, S_business))

\* C8: for every input whose category is absent, empty or a string that
\* names no known category (up to case), getOffers returns exactly the
\* default (home) offers and does not fail.
C8_UnknownCategoryReturnsDefault ==
    \A i \in GetOffersInvocations :
        LET category == Get(invocations[i].input, K("category"))
        IN  (/\ category.t \in {"undefined", "str"}
             /\ \A known \in KnownCategories : ~Names(invocations[i].input, known))
            => ReturnsOffers(invocations[i].result, Get(OFFERS, S_home))

CreatePurchaseLinkInvocations ==
    {i \in 1..Len(invocations) :
        /\ invocations[i].tool = "createPurchaseLink"
        /\ Truthy(Get(invocations[i].input, K("offer_id")))}

\* the purchase_url of a createPurchaseLink result
PurchaseUrl(result) == Get(JSONParse(EnvelopeText(result)).val, K("purchase_url"))

\* s occurs in t as a run of consecutive characters
Contains(t, s) ==
    \E from \in 0..(Len(t) - Len(s)) : SubSeq(t, from + 1, from + Len(s)) = s

\* C9: createPurchaseLink with a non-empty offer_id returns a URL that
\* contains the lower-cased offer id and a generated suffix, and two calls
\* with the same offer_id never return identical URLs.
C9_PurchaseLinksNeverRepeat ==
    /\ \A i \in CreatePurchaseLinkInvocations :
           /\ PurchaseUrl(invocations[i].result).t = "str"
           /\ \E lower \in {home_pro, biz_starter} :
                  /\ SameIgnoringCase(Get(invocations[i].input, K("offer_id")).v, lower)
                  /\ Contains(PurchaseUrl(invocations[i].result).v, lower)
    /\ \A i, j \in CreatePurchaseLinkInvocations :
           (/\ i # j
            /\ Get(invocations[i].input, K("offer_id")) = Get(invocations[j].input, K("offer_id")))
           => PurchaseUrl(invocations[i].result) # PurchaseUrl(invocations[j].result)

GenerateOfferWidgetInvocations ==
    {i \in 1..Len(invocations) : invocations[i].tool = "generateOfferWidget"}

\* the offers of the input are missing or an empty sequence
WithoutOffers(input) ==
    \/ ~HasOwn(input, K("offers"))
    \/ Get(input, K("offers")) = Arr(<<>>)

\* the envelope's text is the JSON of an error payload: status "error", a
\* non-empty message, no widget_data
IsErrorPayload(result) ==
    LET payload == JSONParse(EnvelopeText(result))
    IN  /\ payload.ok
        /\ Get(payload.val, K("status")) = StrV(K("error"))
        /\ Get(payload.val, K("message")).t = "str"
        /\ Get(payload.val, K("message")).v # <<>>
        /\ ~HasOwn(payload.val, K("widget_data"))

\* C10: generateOfferWidget with an empty or missing offers sequence
\* returns a payload with status "error", an explanatory message and no
\* widget_data.
C10_EmptyOffersGiveErrorPayload ==
    \A i \in GenerateOfferWidgetInvocations :
        WithoutOffers(invocations[i].input)
            => /\ invocations[i].result.t = "obj"
               /\ IsErrorPayload(invocations[i].result)

\* C10 witness: generateOfferWidget has answered both a missing and an empty
\* offers sequence
C10_Witness ==
    /\ \E i \in GenerateOfferWidgetInvocations :
           /\ invocations[i].input = Obj(<<>>)
           /\ IsErrorPayload(invocations[i].result)
    /\ \E i \in GenerateOfferWidgetInvocations :
           /\ invocations[i].input = OffersInput(<<>>)
           /\ IsErrorPayload(invocations[i].result)

\* the payload a generateOfferWidget result carries
WidgetPayload(result) == JSONParse(EnvelopeText(result)).val

\* the html of a success payload
WidgetHtml(result) == Get(Get(WidgetPayload(result), K("widget_data")), K("html")).v

\* the ids of the offers of an input, in input order
InputIds(input) ==
    LET offers == Get(input, K("offers")).v
    IN  [n \in 1..Len(offers) |-> Get(offers[n], K("id"))]

RECURSIVE Between(_, _, _, _)
\* the texts that stand in html, from position p on, between each
\* occurrence of open and the next occurrence of close, in order
Between(html, open, close, p) ==
    IF p + Len(open) - 1 > Len(html) THEN <<>>
    ELSE IF SubSeq(html, p, p + Len(open) - 1) # open THEN Between(html, open, close, p + 1)
    ELSE LET from == p + Len(open)
             ends == {q \in from..Len(html) : html[q] = close}
         IN  IF ends = {} THEN <<>>
             ELSE <<StrV(SubSeq(html, from, Min(ends) - 1))>>
                  \o Between(html, open, close, Min(ends) + 1)

\* the ids of the entries of a rendering: data-offer-id="..."
EntryIds(html) == Between(html, <<" data-offer-id=", "\"">>, "\"", 1)

\* the ids of the actions of a rendering:
\* agentCall('createPurchaseLink', {offer_id: '...'})
ActionIds(html) ==
    Between(html, <<"agentCall('createPurchaseLink', {offer_id: '">>, "'})", 1)

\* the input carries a non-empty sequence of catalog offers
WithOffers(input) ==
    /\ Get(input, K("offers")).t = "arr"
    /\ Get(input, K("offers")).v # <<>>
    /\ \A n \in 1..Len(Get(input, K("offers")).v) :
           Get(input, K("offers")).v[n]
               \in {HomeOffers[1], HomeOffers[2], BusinessOffers[1], BusinessOffers[2]}

\* C11: for every non-empty sequence of offers generateOfferWidget returns
\* status "success", metadata.offers is the sequence of the input's offer
\* ids in input order with duplicates kept, and the rendering has one entry
\* per input offer, in input order, each with a createPurchaseLink action
\* keyed by that offer's id.
C11_WidgetKeepsInputOrder ==
    \A i \in GenerateOfferWidgetInvocations :
        WithOffers(invocations[i].input)
        => /\ invocations[i].result.t = "obj"
           /\ JSONParse(EnvelopeText(invocations[i].result)).ok
           /\ Get(WidgetPayload(invocations[i].result), K("status")) = StrV(K("success"))
           /\ Get(Get(Get(WidgetPayload(invocations[i].result), K("widget_data")),
                      K("metadata")), K("offers"))
                  = Arr(InputIds(invocations[i].input))
           /\ EntryIds(WidgetHtml(invocations[i].result)) = InputIds(invocations[i].input)
           /\ ActionIds(WidgetHtml(invocations[i].result)) = InputIds(invocations[i].input)

\* C11 witness: generateOfferWidget has rendered the home offers last to
\* first and an input that names home_pro twice
C11_Witness ==
    /\ \E i \in GenerateOfferWidgetInvocations :
           /\ invocations[i].input = OffersInput(<<HomeOffers[2], HomeOffers[1]>>)
           /\ ActionIds(WidgetHtml(invocations[i].result))
                  = << StrV(home_pro), StrV(home_basic) >>
    /\ \E i \in GenerateOfferWidgetInvocations :
           /\ invocations[i].input = OffersInput(<<HomeOffers[2], HomeOffers[2]>>)
           /\ ActionIds(WidgetHtml(invocations[i].result))
                  = << StrV(home_pro), StrV(home_pro) >>

\* the input satisfies the inputSchema the tool was registered with
SchemaValid(tool, input) ==
    CASE tool = "getOffers" ->
             Get(input, K("category")).t \in {"undefined", "str"}
      [] tool = "createPurchaseLink" ->
             Get(input, K("offer_id")).t = "str"
      [] tool = "generateOfferWidget" ->
             Get(input, K("offers")).t = "arr"

\* { content: [{ type: 'text', text: <string> }, ...] } with at least one item
IsEnvelope(result) ==
    /\ result.t = "obj"
    /\ Get(result, K("content")).t = "arr"
    /\ Get(result, K("content")).v # <<>>
    /\ \A n \in 1..Len(Get(result, K("content")).v) :
           /\ Get(Get(result, K("content")).v[n], K("type")) = StrV(K("text"))
           /\ Get(Get(result, K("content")).v[n], K("text")).t = "str"

\* C13: for every registered tool and every input that satisfies the tool's
\* input schema, the invocation ends by returning a well-formed content
\* envelope and never with a raw exception.
C13_EveryInvocationReturnsEnvelope ==
    \A i \in 1..Len(invocations) :
        (/\ invocations[i].tool \in registry
         /\ SchemaValid(invocations[i].tool, invocations[i].input))
        => /\ invocations[i].result # Thrown
           /\ IsEnvelope(invocations[i].result)

\* the createPurchaseLink invocations whose offer_id is absent or empty
WithoutOfferId ==
    {i \in 1..Len(invocations) :
        /\ invocations[i].tool = "createPurchaseLink"
        /\ Get(invocations[i].input, K("offer_id")) \in {Undefined, StrV(<<>>)}}

\* C20: createPurchaseLink with an absent or empty offer_id returns an
\* envelope with a single text item that carries the missing-offer-id
\* message; it returns no purchase URL, does not throw, and generates no
\* link identifier: randomUUID() has been called only by the invocations
\* that have an offer_id.
C20_MissingOfferIdGivesErrorItem ==
    /\ \A i \in WithoutOfferId :
           /\ invocations[i].result # Thrown
           /\ IsEnvelope(invocations[i].result)
           /\ Len(Get(invocations[i].result, K("content")).v) = 1
           /\ EnvelopeText(invocations[i].result) = MissingOfferIdText
           /\ ~Contains(EnvelopeText(invocations[i].result), K("https://your-company.com/checkout/"))
           /\ ~HasOwn(JSONParse(EnvelopeText(invocations[i].result)).val, K("purchase_url"))
           /\ invocations[i].uuid = <<>>
    /\ Cardinality(usedUuids) = Cardinality(CreatePurchaseLinkInvocations)

\* C20 witness: createPurchaseLink has answered an input without offer_id
\* and an input with an empty offer_id, and no link identifier was drawn
C20_Witness ==
    /\ \E i, j \in WithoutOfferId :
           /\ invocations[i].input = Obj(<<>>)
           /\ invocations[j].input = OfferIdInput(<<>>)
           /\ EnvelopeText(invocations[i].result) = MissingOfferIdText
           /\ EnvelopeText(invocations[j].result) = MissingOfferIdText
    /\ usedUuids = {}

\* what the tool returns for the input as the first invocation of a freshly
\* started server
FreshResult(tool, input) ==
    IF tool = "getOffers" THEN GetOffersOn(OFFERS, input) ELSE GenerateOfferWidget(input)

\* C22: no invocation, in any order, changes the catalog or the set of
\* registered tools, and the result of getOffers and of generateOfferWidget
\* for a given input is the same whichever invocations ran before it.
C22_InvocationsAreStateless ==
    /\ catalog = OFFERS
    /\ registry = RegisteredTools
    /\ \A i \in GetOffersInvocations \cup GenerateOfferWidgetInvocations :
           invocations[i].result = FreshResult(invocations[i].tool, invocations[i].input)

\* C22 witness: after a getOffers for the business category, getOffers
\* without a category has returned the home offers of the unchanged catalog
C22_Witness ==
    /\ Len(invocations) = 2
    /\ invocations[1].tool = "getOffers"
    /\ Names(invocations[1].input, S_business)
    /\ invocations[2].tool = "getOffers"
    /\ invocations[2].input = Obj(<<>>)
    /\ ReturnsOffers(invocations[2].result, Get(OFFERS, S_home))
    /\ catalog = OFFERS

(***************************************************************************)
(* The client's steps                                                      *)
(***************************************************************************)
\* the turn handleSendMessage appends for each way the transport can end
AppendedTurn == [transport \in Transports |-> TurnFor(CallAgent(transport))]

Call(trigger, userText, toolName, toolArgs, sent) ==
    [trigger |-> trigger, userText |-> userText, toolName |-> toolName,
     toolArgs |-> toolArgs, sent |-> sent, posts |-> 1, status |-> "awaiting",
     transport |-> TransportFailure, at |-> 0, grew |-> 0, idleAfter |-> FALSE]

\* a rejection that keeps the submission and sends it to the agent as well
TurnAwayAndSend ==
    /\ turnedAway' = TRUE
    /\ calls' = Append(calls, Call("user", Null, Null, Obj(<<>>), history))
    /\ UNCHANGED << history, isThinking, agentCall, mounted >>

\* if (isThinking) return;  and the disabled Send button and Enter key: the
\* submission is dropped
TurnAway ==
    /\ turnedAway' = TRUE
    /\ UNCHANGED << history, isThinking, agentCall, mounted, calls >>

\* handleSendMessage(userText, toolName, toolArgs) up to its await, run by
\* a closure that captured capturedHistory and capturedThinking
HandleSendMessage(capturedHistory, capturedThinking, trigger, userText, toolName, toolArgs) ==
    IF capturedThinking
    THEN TurnAway
    ELSE /\ Len(calls) < MaxSubmissions
         /\ isThinking' = TRUE
         /\ calls' = Append(calls,
                Call(trigger, userText, toolName, toolArgs,
                     NewHistory(capturedHistory, userText, toolName, toolArgs)))
         /\ UNCHANGED << history, agentCall, mounted, turnedAway >>

\* window.agentCall(toolName, args), from a widget button or any script
WidgetAction ==
    \E action \in WidgetActions :
        /\ mounted
        /\ agentCall.bound
        /\ HandleSendMessage(agentCall.history, agentCall.isThinking, "widget",
                             Null, StrV(action.toolName), action.args)

\* the Send button or the Enter key: both are inert while the rendered
\* isThinking is true or the input is blank; React has rendered the current
\* state before it dispatches the event
UserSubmit ==
    \E text \in UserTexts :
        /\ mounted
        /\ ~Blank(text)
        /\ IF isThinking
           THEN TurnAway
           ELSE HandleSendMessage(history, isThinking, "user", StrV(text), Null, Obj(<<>>))

\* the effect with dependencies [history, isThinking]: its cleanup deletes
\* window.agentCall and it binds the closure of the latest render
RunEffect ==
    /\ mounted
    /\ agentCall # Bound(history, isThinking)
    /\ agentCall' = Bound(history, isThinking)
    /\ UNCHANGED << history, isThinking, mounted, calls, turnedAway >>

\* a handleSendMessage that clears the busy flag only after an answer, not
\* after a failed transport
SettleWithoutFinally(i, transport) ==
    /\ mounted
    /\ calls[i].status = "awaiting"
    /\ history' = AppendTurn(history, AppendedTurn[transport])
    /\ isThinking' = (IF transport.ok THEN FALSE ELSE isThinking)
    /\ calls' = [calls EXCEPT ![i] =
                    [@ EXCEPT !.status = "done", !.transport = transport,
                              !.at = Len(history'), !.grew = Len(history') - Len(history),
                              !.idleAfter = ~isThinking']]
    /\ UNCHANGED << agentCall, mounted, turnedAway >>

\* the awaited callAgent settles and handleSendMessage runs to its end:
\* one setHistory, then the finally block's setIsThinking(false)
Settle(i, transport) ==
    /\ mounted
    /\ calls[i].status = "awaiting"
    /\ history' = AppendTurn(history, AppendedTurn[transport])
    /\ isThinking' = FALSE
    /\ calls' = [calls EXCEPT ![i] =
                    [@ EXCEPT !.status = "done", !.transport = transport,
                              !.at = Len(history'), !.grew = Len(history') - Len(history),
                              !.idleAfter = ~isThinking']]
    /\ UNCHANGED << agentCall, mounted, turnedAway >>

TransportFails == \E i \in 1..Len(calls) : Settle(i, TransportFailure)

AgentAnswers ==
    \E i \in 1..Len(calls) : \E data \in AgentData : Settle(i, TransportAnswer(data))

\* the App component is torn down: the effect's cleanup runs and the
\* component's state is gone, so what settles later updates nothing
Unmount ==
    /\ mounted
    /\ mounted' = FALSE
    /\ agentCall' = Unbound
    /\ UNCHANGED << history, isThinking, calls, turnedAway >>

Next ==
    \/ WidgetAction /\ UNCHANGED serverVars
    \/ UserSubmit /\ UNCHANGED serverVars
    \/ RunEffect /\ UNCHANGED serverVars
    \/ TransportFails /\ UNCHANGED serverVars
    \/ AgentAnswers /\ UNCHANGED serverVars
    \/ Unmount /\ UNCHANGED serverVars

Spec == Init /\ [][Next]_vars

(***************************************************************************)
(* Properties of the turn orchestrator                                     *)
(***************************************************************************)
Awaiting == {i \in 1..Len(calls) : calls[i].status = "awaiting"}
Done     == {i \in 1..Len(calls) : calls[i].status = "done"}

\* the body has the shape { candidates: [{ content: { parts: [...] } }, ...] }
\* and no error
WellFormed(data) ==
    /\ data.t = "obj"
    /\ ~Truthy(Get(data, K("error")))
    /\ Get(data, K("candidates")).t = "arr"
    /\ Len(Get(data, K("candidates")).v) >= 1
    /\ Get(Index(Get(data, K("candidates")), 0), K("content")).t = "obj"
    /\ Get(Get(Index(Get(data, K("candidates")), 0), K("content")), K("parts")).t = "arr"

\* the parts of a well-formed body
ResponseParts(data) ==
    Get(Get(Index(Get(data, K("candidates")), 0), K("content")), K("parts")).v

AnsweredWell(i) ==
    /\ calls[i].status = "done"
    /\ calls[i].transport.ok
    /\ WellFormed(calls[i].transport.data)

\* C1: at most one agent boundary call is in flight at any time, under
\* every interleaving of userSubmit and widgetAction triggers.
C1_AtMostOneCallInFlight == Cardinality(Awaiting) <= 1

\* C2: a userSubmit with non-blank text whose call returns a well-formed
\* response grows the transcript by exactly two turns: the user turn with
\* the submitted text, then the agent turn.
C2_UserTurnThenAgentTurn ==
    \A i \in Done :
        (calls[i].trigger = "user" /\ AnsweredWell(i))
        => /\ calls[i].grew = 2
           /\ history[calls[i].at - 1] = UserTurn(calls[i].userText.v)
           /\ history[calls[i].at].role = "agent"

\* C3: after a transport failure exactly one turn is appended for the
\* submission, it is an error turn carrying the fallback message, the busy
\* flag is false, and the agent boundary was called once.
C3_FailureAppendsOneErrorTurn ==
    \A i \in Done :
        ~calls[i].transport.ok
        => /\ calls[i].grew = 1
           /\ history[calls[i].at] = ErrorTurn(StrV(ConnectFailedText))
           /\ calls[i].idleAfter
           /\ calls[i].posts = 1

\* C3 witness: a submission's call has failed at the transport and the
\* transcript holds its turn
C3_Witness ==
    \E i \in Done :
        /\ ~calls[i].transport.ok
        /\ history[calls[i].at].role = "error"
        /\ ~isThinking

IsPrefix(a, b) == Len(a) <= Len(b) /\ SubSeq(b, 1, Len(a)) = a

\* C4: the transcript is append-only: across every step the transcript
\* before the step is a prefix of the transcript after it.
C4_TranscriptAppendOnly == [][IsPrefix(history, history')]_vars

\* C4 witness: an agent turn and an error turn have been appended after the
\* greeting and a submission has been turned away
C4_Witness ==
    /\ Len(history) = 3
    /\ history[2].role = "agent"
    /\ history[3].role = "error"
    /\ turnedAway

\* C5: the appended agent turn is tagged with a widget exactly when the
\* concatenated text of the response parts decodes as JSON carrying
\* widget_data, and the tag equals that widget_data; otherwise the turn is
\* an untagged agent turn.
C5_WidgetTagIffTextDecodes ==
    \A i \in Done :
        AnsweredWell(i)
        => LET decoded == JSONParse(ConcatText(ResponseParts(calls[i].transport.data), 1))
               turn    == history[calls[i].at]
           IN  /\ turn.role = "agent"
               /\ IF decoded.ok /\ HasOwn(decoded.val, K("widget_data"))
                  THEN turn.widget = Get(decoded.val, K("widget_data"))
                  ELSE turn.widget = Undefined

\* C6: when the user submits "home" and the agent answers with the output
\* of generateOfferWidget fed with getOffers({category:"home"}), the last
\* turn of the transcript is tagged with a widget whose metadata.offers is
\* ["home_basic", "home_pro"].
C6_HomeEndsWithOffersWidget ==
    \A i \in Done :
        (/\ calls[i].trigger = "user"
         /\ calls[i].userText = StrV(S_home)
         /\ calls[i].transport = TransportAnswer(MockedHomeAnswer)
         /\ calls[i].at = Len(history))
        => /\ Truthy(history[Len(history)].widget)
           /\ Get(Get(history[Len(history)].widget, K("metadata")), K("offers"))
                  = Arr(<< StrV(home_basic), StrV(home_pro) >>)

\* the appends the orchestrator has performed: one setHistory per settled
\* handleSendMessage
Appends == Cardinality(Done)

\* C12 as stated: after N appends the transcript has exactly N turns, for
\* all N >= 0, N = 0 being the state at session start.
C12_SnapshotHasOnlyAppendedTurns == Len(history) = Appends

\* C12 amended: after N appends the transcript has exactly N + 1 turns: the
\* greeting the session starts with, followed by the N appended turns in
\* append order.
C12_GreetingThenAppendedTurns ==
    /\ Len(history) = Appends + 1
    /\ history[1] = Greeting
    /\ {calls[i].at : i \in Done} = 2..Len(history)
    /\ \A i \in Done : history[calls[i].at] = AppendedTurn[calls[i].transport]

\* C12 witness: two appends have been performed, an agent turn and then an
\* error turn
C12_Witness ==
    /\ Appends = 2
    /\ Len(history) = 3
    /\ \E i, j \in Done :
           /\ calls[i].at = 2 /\ history[2].role = "agent"
           /\ calls[j].at = 3 /\ history[3].role = "error"

\* the body lacks the expected shape: no candidates, an empty candidates
\* list, or a first candidate without content or without parts
Malformed(data) == ~Truthy(Get(data, K("error"))) /\ ~WellFormed(data)

\* C14: every agent response that lacks the expected shape is surfaced as
\* exactly one error-role turn appended to the transcript, never as an
\* agent-role turn and never as no turn at all.
C14_MalformedResponseGivesErrorTurn ==
    \A i \in Done :
        (calls[i].transport.ok /\ Malformed(calls[i].transport.data))
        => /\ calls[i].grew = 1
           /\ history[calls[i].at].role = "error"

\* C15: a widgetAction(toolName, args) accepted in Idle (here: the first
\* submission of the session) appends a user turn whose text is synthesized
\* from toolName and the serialized args, calls the agent once with a
\* history ending in that turn, appends the resulting agent or error turn
\* and returns to Idle.
C15_WidgetActionFollowsUserSubmit ==
    (/\ Len(calls) = 1
     /\ calls[1].trigger = "widget"
     /\ calls[1].status = "done")
    => LET synthetic == UserTurn(ClickText(calls[1].toolName.v, calls[1].toolArgs))
       IN  /\ calls[1].posts = 1
           /\ calls[1].sent[Len(calls[1].sent)] = synthetic
           /\ calls[1].grew = 2
           /\ history[calls[1].at - 1] = synthetic
           /\ history[calls[1].at].role \in {"agent", "error"}
           /\ calls[1].idleAfter

\* C16: a submission that is rejected changes nothing: across the step that
\* turns it away the transcript, the busy flag and the calls (issued and
\* outstanding) are unchanged; and it is not queued: the step in which the
\* orchestrator returns to Idle issues no call.
C16_RejectedSubmissionChangesNothing ==
    [][/\ (turnedAway' # turnedAway) => UNCHANGED << history, isThinking, calls >>
       /\ (isThinking /\ ~isThinking') => Len(calls') = Len(calls)]_vars

\* C16 witness: while the first call of the session is outstanding a
\* submission has been turned away, and the transcript and the calls are
\* what they were
C16_Witness ==
    /\ turnedAway
    /\ isThinking
    /\ Len(calls) = 1
    /\ Awaiting = {1}
    /\ history = <<Greeting>>

\* the body carries a truthy error field
ErrorBody(data) == Truthy(Get(data, K("error")))

\* C17: every exit path of the round-trip clears the busy flag: right after
\* a call has completed or failed the orchestrator is Idle; and in every
\* reachable state the busy flag is true only while a call is outstanding.
C17_BusyOnlyWhileCallOutstanding ==
    /\ \A i \in Done : calls[i].idleAfter
    /\ isThinking => Awaiting # {}

\* C17 witness: one call has ended with an {error} body and one with a body
\* whose parsing throws, and the orchestrator is Idle with no call
\* outstanding
C17_Witness ==
    /\ ~isThinking
    /\ Awaiting = {}
    /\ \E i, j \in Done :
           /\ calls[i].transport.ok /\ ErrorBody(calls[i].transport.data)
           /\ calls[j].transport = TransportAnswer(Obj(<<>>))
           /\ history[calls[j].at] = ErrorTurn(StrV(UnexpectedErrorText))

\* the user turn of the i-th accepted submission
SubmittedTurn(i) ==
    IF calls[i].trigger = "user"
    THEN UserTurn(calls[i].userText.v)
    ELSE UserTurn(ClickText(calls[i].toolName.v, calls[i].toolArgs))

\* C18: the history sent with each agent call ends with the user turn just
\* submitted and contains, before it and in submission order, the user
\* turns of all earlier submissions of the session.
C18_CallReceivesFullTranscript ==
    \A i \in 1..Len(calls) :
        LET sent  == calls[i].sent
            users == SelectSeq(sent, LAMBDA turn : turn.role = "user")
        IN  /\ sent # <<>>
            /\ sent[Len(sent)] = SubmittedTurn(i)
            /\ users = [j \in 1..i |-> SubmittedTurn(j)]

\* ChatMessage with message = turn.content: the text it puts in the bubble
\* is the text of parseAgentResponse(message)
DisplayedText(turn) == ParseAgentResponse(turn.content).text

\* C19: when an agent response is recognised as a widget payload, the text
\* the display layer derives from the stored turn is the fixed confirmation
\* string and not the serialized payload.
C19_WidgetTurnShowsConfirmation ==
    \A i \in Done :
        (/\ history[calls[i].at].role = "agent"
         /\ Truthy(history[calls[i].at].widget))
        => DisplayedText(history[calls[i].at]) = WidgetConfirmationText

\* C21: whenever window.agentCall can be invoked it is bound to the current
\* transcript and the current busy flag, not to an earlier snapshot; and
\* once the display layer is torn down it is removed, so that no widget
\* action reaches the orchestrator.
C21_AgentCallSeesCurrentState ==
    /\ (mounted /\ agentCall.bound) => agentCall = Bound(history, isThinking)
    /\ ~mounted => (~agentCall.bound /\ ~ENABLED WidgetAction)

====
